---------------------------- MODULE Spec2Model ----------------------------
(***************************************************************************)
(* RV-801: an RV32I emulator (src/src/isa.rs, src/src/cpu.rs).             *)
(*                                                                         *)
(* Representation of machine integers.  TLC's integers are 32-bit signed,  *)
(* so a 32-bit quantity (u32 or i32: a register, an instruction word) is   *)
(* held as the integer in -2^31 .. 2^31-1 that has the same bit pattern    *)
(* (its two's-complement reading).  `as u32` / `as i32` casts are then the *)
(* identity, unsigned comparison is LtU, and arithmetic that may leave the *)
(* range is done on 16-bit halves.  An i16 is the integer itself.          *)
(* A usize (pc, an address) is held as itself while below 2^31; a larger   *)
(* one is held as the (negative) pattern of its low 32 bits.  Every such   *)
(* value is >= 0x10000 and only ever indexes memory, which panics.         *)
(***************************************************************************)
EXTENDS Integers, Sequences, FiniteSets, TLC

\* memory: [u8; 0x10000]
MemSize == 65536

\* Bound on the iterations of run's loop that are explored.
MaxSteps == 8

---------------------------------------------------------------------------
\* Machine arithmetic on the representation above.

\* The u32/i32 with high half hi and low half lo (each 0..0xFFFF).
W(hi, lo) == (IF hi >= 32768 THEN hi - 65536 ELSE hi) * 65536 + lo

\* x as i16, for any integer x.
AsI16(x) == ((x + 32768) % 65536) - 32768

\* i16 as i32 / as u32: sign extension, the identity on the representation.
I16AsI32(x) == x

\* u32::wrapping_add / i32 wrapping addition.
Add32(a, b) ==
    LET lo == (a % 65536) + (b % 65536)
        hi == (a \div 65536) + (b \div 65536) + (lo \div 65536)
    IN  AsI16(hi) * 65536 + (lo % 65536)

\* a < b as u32.
LtU(a, b) == IF (a < 0) = (b < 0) THEN a < b ELSE b < 0

\* x >> k on an i32 (arithmetic), 0 <= k <= 31.
Sar32(x, k) == IF k <= 30 THEN x \div (2 ^ k) ELSE (x \div (2 ^ 30)) \div 2

\* x >> k on a u32 (logical), 0 <= k <= 31.
Shr32(x, k) ==
    IF k = 0 \/ x >= 0 THEN Sar32(x, k)
    ELSE Sar32((((x + 2147483647) + 1) \div 2) + 1073741824, k - 1)

\* x << k on a 32-bit value, 0 <= k <= 31, bits shifted out are lost.
Shl32(x, k) ==
    IF k = 0 THEN x
    ELSE (IF k = 31 THEN 0 ELSE (x % (2 ^ (31 - k))) * (2 ^ k))
           + (IF (x \div (2 ^ (31 - k))) % 2 = 1 THEN -2147483647 - 1 ELSE 0)

\* (w >> lo) & (2^n - 1), n <= 30.
Bits(w, lo, n) == Sar32(w, lo) % (2 ^ n)

\* Bitwise operations on n-bit non-negative values.
RECURSIVE BitOp(_, _, _, _)
BitOp(op, a, b, n) ==
    IF n = 0 THEN 0
    ELSE LET x == a % 2
             y == b % 2
             r == CASE op = "and" -> IF x = 1 /\ y = 1 THEN 1 ELSE 0
                    [] op = "or"  -> IF x = 1 \/ y = 1 THEN 1 ELSE 0
                    [] op = "xor" -> IF x # y THEN 1 ELSE 0
         IN  r + 2 * BitOp(op, a \div 2, b \div 2, n - 1)

\* a & b, a | b, a ^ b on 32-bit values.
Bit32(op, a, b) ==
    W(BitOp(op, (a \div 65536) % 65536, (b \div 65536) % 65536, 16),
      BitOp(op, a % 65536, b % 65536, 16))
And32(a, b) == Bit32("and", a, b)
Or32(a, b)  == Bit32("or", a, b)
Xor32(a, b) == Bit32("xor", a, b)

---------------------------------------------------------------------------
\* isa.rs: the decoder.

\* ((v as i16) << 4) >> 4 : sign extension of the low 12 bits of v.
Sext12I16(v) == AsI16(v * 16) \div 16

get_opcode(inst) == Bits(inst, 0, 7)

parse_inst(inst) ==
    LET opcode == get_opcode(inst)
        rd     == Bits(inst, 7, 5)
        funct3 == Bits(inst, 12, 3)
        rs1    == Bits(inst, 15, 5)
        rs2    == Bits(inst, 20, 5)
    IN
    CASE opcode \in {55, 23} ->          \* 0b0110111 | 0b0010111 : U-type
           [tag |-> "Ok",
            val |-> [type |-> "U", imm |-> Bits(inst, 12, 20), rd |-> rd,
                     opcode |-> opcode]]
      [] opcode = 111 ->                 \* 0b1101111 : J-type
           [tag |-> "Ok",
            val |-> [type |-> "J",
                     imm |-> Sar32(Shl32(Bits(inst, 12, 20), 11), 11),
                     rd |-> rd, opcode |-> opcode]]
      [] opcode \in {103, 3, 19} ->      \* 0b1100111 | 0b0000011 | 0b0010011
           [tag |-> "Ok",
            val |-> [type |-> "I", imm |-> Sext12I16(Bits(inst, 20, 12)),
                     rs1 |-> rs1, funct3 |-> funct3, rd |-> rd,
                     opcode |-> opcode]]
      [] opcode = 99 ->                  \* 0b1100011 : B-type
           LET imm == Bits(inst, 31, 1) * 4096 + Bits(inst, 7, 1) * 2048
                      + Bits(inst, 25, 6) * 32 + Bits(inst, 8, 4) * 2
           IN  [tag |-> "Ok",
                val |-> [type |-> "B", imm |-> Sext12I16(imm), rs2 |-> rs2,
                         rs1 |-> rs1, funct3 |-> funct3, opcode |-> opcode]]
      [] opcode = 35 ->                  \* 0b0100011 : S-type
           LET imm == Bits(inst, 25, 7) * 32 + Bits(inst, 7, 5)
           IN  [tag |-> "Ok",
                val |-> [type |-> "S", imm |-> Sext12I16(imm), rs2 |-> rs2,
                         rs1 |-> rs1, funct3 |-> funct3, opcode |-> opcode]]
      [] opcode = 51 ->                  \* 0b0110011 : R-type
           [tag |-> "Ok",
            val |-> [type |-> "R", funct7 |-> Bits(inst, 25, 7), rs2 |-> rs2,
                     rs1 |-> rs1, funct3 |-> funct3, rd |-> rd,
                     opcode |-> opcode]]
      [] opcode = 115 ->                 \* 0b1110011 : ECALL, EBREAK
           LET imm == Sext12I16(Bits(inst, 20, 12))
           IN  IF imm = 0 /\ rs1 = 0 /\ funct3 = 0 /\ rd = 0   \* assert_eq!
               THEN [tag |-> "Ok",
                     val |-> [type |-> "I", imm |-> imm, rs1 |-> rs1,
                              funct3 |-> funct3, rd |-> rd,
                              opcode |-> opcode]]
               ELSE [tag |-> "Panic"]
      [] opcode = 15 ->                  \* 0b0001111 : FENCE
           IF funct3 = 0                                       \* assert_eq!
           THEN [tag |-> "Ok",
                 val |-> [type |-> "FENCE", fm |-> Bits(inst, 28, 4),
                          pred |-> Bits(inst, 24, 4),
                          succ |-> Bits(inst, 20, 4), rs1 |-> rs1,
                          funct3 |-> funct3, rd |-> rd, opcode |-> opcode]]
           ELSE [tag |-> "Panic"]
      [] opcode = 0 ->                   \* 0b0000000 : ADDI x0, x0, 0
           [tag |-> "Ok",
            val |-> [type |-> "I", imm |-> 0, rs1 |-> 0, funct3 |-> 0,
                     rd |-> 0, opcode |-> opcode]]
      [] OTHER -> [tag |-> "Err"]

Ok(op) == [tag |-> "Ok", val |-> op]
Err    == [tag |-> "Err"]

get_inst(i) ==
    CASE i.type = "R" ->
           CASE i.funct7 = 0 ->
                  CASE i.funct3 = 0 -> Ok("ADD")
                    [] i.funct3 = 1 -> Ok("SLL")
                    [] i.funct3 = 2 -> Ok("SLT")
                    [] i.funct3 = 3 -> Ok("SLTU")
                    [] i.funct3 = 4 -> Ok("XOR")
                    [] i.funct3 = 5 -> Ok("SRL")
                    [] i.funct3 = 6 -> Ok("OR")
                    [] i.funct3 = 7 -> Ok("AND")
                    [] OTHER -> Err
             [] i.funct7 = 32 ->
                  CASE i.funct3 = 0 -> Ok("SUB")
                    [] i.funct3 = 5 -> Ok("SRA")
                    [] OTHER -> Err
             [] OTHER -> Err
      [] i.type = "B" ->
           CASE i.funct3 = 0 -> Ok("BEQ")
             [] i.funct3 = 1 -> Ok("BNE")
             [] i.funct3 = 4 -> Ok("BLT")
             [] i.funct3 = 5 -> Ok("BGE")
             [] i.funct3 = 6 -> Ok("BLTU")
             [] i.funct3 = 7 -> Ok("BGEU")
             [] OTHER -> Err
      [] i.type = "I" ->
           CASE i.opcode = 103 ->
                  IF i.funct3 = 0 THEN Ok("JALR") ELSE Err
             [] i.opcode = 3 ->
                  CASE i.funct3 = 0 -> Ok("LB")
                    [] i.funct3 = 1 -> Ok("LH")
                    [] i.funct3 = 2 -> Ok("LW")
                    [] i.funct3 = 4 -> Ok("LBU")
                    [] i.funct3 = 5 -> Ok("LHU")
                    [] OTHER -> Err
             [] i.opcode = 19 ->
                  CASE i.funct3 = 1 -> Ok("SLLI")
                    [] i.funct3 = 5 ->
                         \* i.imm & 0x400
                         IF Bits(i.imm, 10, 1) = 1 THEN Ok("SRAI")
                                                   ELSE Ok("SRLI")
                    [] i.funct3 = 0 -> Ok("ADDI")
                    [] i.funct3 = 2 -> Ok("SLTI")
                    [] i.funct3 = 3 -> Ok("SLTIU")
                    [] i.funct3 = 4 -> Ok("XORI")
                    [] i.funct3 = 6 -> Ok("ORI")
                    [] i.funct3 = 7 -> Ok("ANDI")
                    [] OTHER -> Err
             [] i.opcode = 115 ->
                  CASE i.funct3 = 0 -> Ok("ECALL")
                    [] i.funct3 = 1 -> Ok("EBREAK")
                    [] OTHER -> Err
             [] i.opcode = 0 -> Ok("ADDI")
             [] OTHER -> Err
      [] i.type = "S" ->
           CASE i.funct3 = 0 -> Ok("SB")
             [] i.funct3 = 1 -> Ok("SH")
             [] i.funct3 = 2 -> Ok("SW")
             [] OTHER -> Err
      [] i.type = "U" ->
           CASE i.opcode = 55 -> Ok("LUI")
             [] i.opcode = 23 -> Ok("AUIPC")
             [] OTHER -> Err
      [] i.type = "J" -> IF i.opcode = 111 THEN Ok("JAL") ELSE Err
      [] i.type = "FENCE" -> IF i.opcode = 15 THEN Ok("FENCE") ELSE Err

\* Instruction::from naming R-type words by funct3 alone.
InstructionFrom_ignoring_funct7(inst) ==
    LET p == parse_inst(inst)
    IN  IF p.tag # "Ok" THEN [tag |-> "Panic"]
        ELSE LET g == get_inst(p.val)
             IN  IF g.tag # "Ok" THEN [tag |-> "Panic"]
                 ELSE [tag |-> "Ok",
                       val |-> [inst_type |-> p.val,
                                inst |-> CASE g.val = "SUB" -> "ADD"
                                           [] g.val = "SRA" -> "SRL"
                                           [] OTHER -> g.val,
                                raw |-> inst]]

\* Instruction::from: both results are unwrapped with expect, so an Err (or
\* a failed assert_eq! inside parse_inst) is a panic.
InstructionFrom(inst) ==
    LET p == parse_inst(inst)
    IN  IF p.tag # "Ok" THEN [tag |-> "Panic"]
        ELSE LET g == get_inst(p.val)
             IN  IF g.tag # "Ok" THEN [tag |-> "Panic"]
                 ELSE [tag |-> "Ok",
                       val |-> [inst_type |-> p.val, inst |-> g.val,
                                raw |-> inst]]

is_nop(self) ==
    IF self.raw = 0 THEN TRUE
    ELSE IF self.inst = "ADDI"
         THEN LET i == self.inst_type
              IN  i.imm = 0 /\ i.rs1 = 0 /\ i.funct3 = 0 /\ i.rd = 0
         ELSE FALSE

---------------------------------------------------------------------------
\* cpu.rs: the CPU.  An operation on `self` is an operator from the CPU
\* record to a result [panic, self]: panic = TRUE when the code panics
\* (index out of bounds, expect on an Err, arithmetic overflow check), and
\* self is then the CPU as the panic left it.

Done(self)  == [panic |-> FALSE, self |-> self]
Panic(self) == [panic |-> TRUE, self |-> self]

\* memory is held by its non-zero bytes: a function from the addresses of
\* the non-zero bytes to their values.
InBounds(a) == a >= 0 /\ a < MemSize
MemGet(memory, a) == IF a \in DOMAIN memory THEN memory[a] ELSE 0
MemSet(memory, a, b) ==
    [x \in (IF b = 0 THEN DOMAIN memory \ {a} ELSE DOMAIN memory \cup {a})
       |-> IF x = a THEN b ELSE memory[x]]

\* u32::from_le_bytes, u16::from_le_bytes, u32::to_le_bytes()[i]
u32_from_le_bytes(b0, b1, b2, b3) == W(b3 * 256 + b2, b1 * 256 + b0)
u16_from_le_bytes(b0, b1) == b1 * 256 + b0
to_le_bytes(v, i) == Bits(v, 8 * i, 8)

\* CPU::new
CPU_new ==
    [regs |-> [i \in 0..31 |-> 0], pc |-> 0, memory |-> <<>>,
     exit_on_nop |-> FALSE, last_inst |-> <<>>]

\* fetch: the four indexings are bounds-checked in order, before pc += 4.
fetch(self) ==
    IF ~(InBounds(self.pc) /\ InBounds(self.pc + 3))
    THEN [panic |-> TRUE, self |-> self, inst |-> 0]
    ELSE [panic |-> FALSE,
          self |-> [self EXCEPT !.pc = self.pc + 4],
          inst |-> u32_from_le_bytes(MemGet(self.memory, self.pc),
                                     MemGet(self.memory, self.pc + 1),
                                     MemGet(self.memory, self.pc + 2),
                                     MemGet(self.memory, self.pc + 3))]

\* decode without the arm for opcode 0000000.
decode_without_opcode_zero(inst) ==
    IF get_opcode(inst) = 0 THEN [tag |-> "Panic"] ELSE InstructionFrom(inst)

decode(inst) == InstructionFrom(inst)

\* The conversion of an i16 immediate where the code uses it as a u32
\* operand without a cast (sltiu, xori, ori, andi, lb): sign extension.
ImmAsU32(imm) == imm

\* wrapping_add_12bit on a u32 receiver (jalr, loads, stores, addi): the
\* source holds no implementation for u32; 32-bit wrapping addition.
wrapping_add_12bit(a, b) == Add32(a, ImmAsU32(b))

\* impl TwelveBitWrappingOps for i16
wrapping_add_12bit_i16(a, b) ==
    LET result == AsI16(a + b)
    IN  IF result >= 2047 THEN 2047
        ELSE IF result <= -2047 THEN -2047
        ELSE result

\* impl ThirtyTwoBitWrappingOps for usize: (self + rhs) & 0xFFFFFFFF, with
\* rhs a zero-extended u32.
wrapping_add_32bit(a, rhs) == Add32(a, rhs)

\* A shift of a 32-bit value by an i16 amount: with overflow checks the
\* shift panics unless 0 <= amount < 32; without them the amount is masked
\* to its low five bits.
ShiftOk(checks, amount) == ~checks \/ (amount >= 0 /\ amount < 32)
ShiftAmount(amount) == amount % 32

SetReg(self, rd, v) == [self EXCEPT !.regs[rd] = v]

lui(self, rd, imm) == Done(SetReg(self, rd, imm))

auipc(self, rd, imm) == Done(SetReg(self, rd, self.pc + imm))

jal(self, rd, imm) ==
    LET tmp_pc == self.pc
        sign_extended_imm == Sar32(Shl32(I16AsI32(imm), 1), 1)
    IN  Done(SetReg([self EXCEPT
                       !.pc = wrapping_add_32bit(self.pc, sign_extended_imm)],
                    rd, Add32(tmp_pc, 4)))

\* jalr writing the link to x1 whatever rd is.
jalr_linking_x1(self, rd, rs1, imm) ==
    LET tmp_pc == self.pc
        sign_extended_imm == Sar32(Shl32(I16AsI32(imm), 1), 1)
    IN  Done(SetReg([self EXCEPT
                       !.pc = Add32(self.regs[rs1], sign_extended_imm)],
                    1, Add32(tmp_pc, 4)))

jalr(self, rd, rs1, imm) ==
    LET tmp_pc == self.pc
        sign_extended_imm == Sar32(Shl32(I16AsI32(imm), 1), 1)
    IN  Done(SetReg([self EXCEPT
                       !.pc = wrapping_add_12bit(self.regs[rs1],
                                                 sign_extended_imm)],
                    rd, wrapping_add_12bit(tmp_pc, 4)))

\* self.pc = ((self.pc as i32) + ((imm as i32) << 1)) as usize
BranchTo(self, imm) ==
    [self EXCEPT !.pc = self.pc + Shl32(I16AsI32(imm), 1)]

beq(self, rs1, rs2, imm) ==
    Done(IF self.regs[rs1] = self.regs[rs2] THEN BranchTo(self, imm)
         ELSE self)

\* bne taking the branch whatever the registers hold.
bne_always_taken(self, rs1, rs2, imm) == Done(BranchTo(self, imm))

bne(self, rs1, rs2, imm) ==
    Done(IF self.regs[rs1] # self.regs[rs2] THEN BranchTo(self, imm)
         ELSE self)

\* blt comparing the registers as u32.
blt_unsigned(self, rs1, rs2, imm) ==
    Done(IF LtU(self.regs[rs1], self.regs[rs2]) THEN BranchTo(self, imm)
         ELSE self)

blt(self, rs1, rs2, imm) ==
    Done(IF self.regs[rs1] < self.regs[rs2] THEN BranchTo(self, imm)
         ELSE self)

bge(self, rs1, rs2, imm) ==
    Done(IF self.regs[rs1] >= self.regs[rs2] THEN BranchTo(self, imm)
         ELSE self)

bltu(self, rs1, rs2, imm) ==
    Done(IF LtU(self.regs[rs1], self.regs[rs2]) THEN BranchTo(self, imm)
         ELSE self)

bgeu(self, rs1, rs2, imm) ==
    Done(IF ~LtU(self.regs[rs1], self.regs[rs2]) THEN BranchTo(self, imm)
         ELSE self)

\* memory[addr] as i8 as i32 as u32 ; from_le_bytes(..) as i16 as i32 as u32
SextByte(b) == IF b >= 128 THEN b - 256 ELSE b
SextHalf(h) == AsI16(h)

\* lb without the sign extension.
lb_zero_extended(self, rd, rs1, imm) ==
    LET addr == Add32(self.regs[rs1], imm)
    IN  IF ~InBounds(addr) THEN Panic(self)
        ELSE Done(SetReg(self, rd, MemGet(self.memory, addr)))

lb(self, rd, rs1, imm) ==
    LET addr == Add32(self.regs[rs1], ImmAsU32(imm))
    IN  IF ~InBounds(addr) THEN Panic(self)
        ELSE Done(SetReg(self, rd, SextByte(MemGet(self.memory, addr))))

lh(self, rd, rs1, imm) ==
    LET addr == wrapping_add_12bit(self.regs[rs1], imm)
    IN  IF ~(InBounds(addr) /\ InBounds(addr + 1)) THEN Panic(self)
        ELSE Done(SetReg(self, rd,
                  SextHalf(u16_from_le_bytes(MemGet(self.memory, addr),
                                             MemGet(self.memory, addr + 1)))))

lw(self, rd, rs1, imm) ==
    LET addr == wrapping_add_12bit(self.regs[rs1], imm)
    IN  IF ~(InBounds(addr) /\ InBounds(addr + 3)) THEN Panic(self)
        ELSE Done(SetReg(self, rd,
                  u32_from_le_bytes(MemGet(self.memory, addr),
                                    MemGet(self.memory, addr + 1),
                                    MemGet(self.memory, addr + 2),
                                    MemGet(self.memory, addr + 3))))

lbu(self, rd, rs1, imm) ==
    LET addr == wrapping_add_12bit(self.regs[rs1], imm)
    IN  IF ~InBounds(addr) THEN Panic(self)
        ELSE Done(SetReg(self, rd, MemGet(self.memory, addr)))

lhu(self, rd, rs1, imm) ==
    LET addr == wrapping_add_12bit(self.regs[rs1], imm)
    IN  IF ~(InBounds(addr) /\ InBounds(addr + 1)) THEN Panic(self)
        ELSE Done(SetReg(self, rd,
                  u16_from_le_bytes(MemGet(self.memory, addr),
                                    MemGet(self.memory, addr + 1))))

\* The stores write byte by byte, each indexing bounds-checked in turn: the
\* bytes before the first out-of-bounds index are written.
RECURSIVE StoreBytes(_, _, _, _, _)
StoreBytes(self, addr, v, i, n) ==
    IF i = n THEN Done(self)
    ELSE IF ~InBounds(addr + i) THEN Panic(self)
    ELSE StoreBytes([self EXCEPT
                       !.memory = MemSet(self.memory, addr + i,
                                         to_le_bytes(v, i))],
                    addr, v, i + 1, n)

sb(self, rs1, rs2, imm) ==
    StoreBytes(self, wrapping_add_12bit(self.regs[rs1], imm),
               self.regs[rs2], 0, 1)

\* sh writing the high byte of the half-word first.
sh_high_byte_first(self, rs1, rs2, imm) ==
    StoreBytes(self, Add32(self.regs[rs1], imm),
               Bits(self.regs[rs2], 0, 8) * 256 + Bits(self.regs[rs2], 8, 8),
               0, 2)

sh(self, rs1, rs2, imm) ==
    StoreBytes(self, wrapping_add_12bit(self.regs[rs1], imm),
               self.regs[rs2], 0, 2)

\* sw with the address sum clamped by the i16 helper.
sw_clamped_address(self, rs1, rs2, imm) ==
    StoreBytes(self, wrapping_add_12bit_i16(AsI16(self.regs[rs1]), imm),
               self.regs[rs2], 0, 4)

\* sw writing the low half-word only.
sw_low_half(self, rs1, rs2, imm) ==
    StoreBytes(self, Add32(self.regs[rs1], imm), self.regs[rs2], 0, 2)

sw(self, rs1, rs2, imm) ==
    StoreBytes(self, wrapping_add_12bit(self.regs[rs1], imm),
               self.regs[rs2], 0, 4)

\* addi with the sum clamped by the i16 helper.
addi_clamped(self, rd, rs1, imm) ==
    Done(SetReg(self, rd,
                wrapping_add_12bit_i16(AsI16(self.regs[rs1]), imm)))

\* addi with the immediate taken as an unsigned 12-bit value.
addi_unsigned_imm(self, rd, rs1, imm) ==
    Done(SetReg(self, rd, wrapping_add_12bit(self.regs[rs1], imm % 4096)))

addi(self, rd, rs1, imm) ==
    LET imm32 == Sar32(Shl32(I16AsI32(imm), 20), 20)
    IN  Done(SetReg(self, rd, wrapping_add_12bit(self.regs[rs1], imm32)))

\* slti comparing as unsigned.
slti_unsigned(self, rd, rs1, imm) ==
    Done(SetReg(self, rd,
                IF LtU(self.regs[rs1], I16AsI32(imm)) THEN 1 ELSE 0))

slti(self, rd, rs1, imm) ==
    Done(SetReg(self, rd,
                IF self.regs[rs1] < I16AsI32(imm) THEN 1 ELSE 0))

\* sltiu comparing as signed.
sltiu_signed(self, rd, rs1, imm) ==
    Done(SetReg(self, rd, IF self.regs[rs1] < imm THEN 1 ELSE 0))

sltiu(self, rd, rs1, imm) ==
    Done(SetReg(self, rd,
                IF LtU(self.regs[rs1], ImmAsU32(imm)) THEN 1 ELSE 0))

xori(self, rd, rs1, imm) ==
    Done(SetReg(self, rd, Xor32(self.regs[rs1], ImmAsU32(imm))))

ori(self, rd, rs1, imm) ==
    Done(SetReg(self, rd, Or32(self.regs[rs1], ImmAsU32(imm))))

andi(self, rd, rs1, imm) ==
    Done(SetReg(self, rd, And32(self.regs[rs1], ImmAsU32(imm))))

slli(self, checks, rd, rs1, imm) ==
    IF ~ShiftOk(checks, imm) THEN Panic(self)
    ELSE Done(SetReg(self, rd, Shl32(self.regs[rs1], ShiftAmount(imm))))

srli(self, checks, rd, rs1, imm) ==
    IF ~ShiftOk(checks, imm) THEN Panic(self)
    ELSE Done(SetReg(self, rd, Shr32(self.regs[rs1], ShiftAmount(imm))))

srai(self, checks, rd, rs1, imm) ==
    IF ~ShiftOk(checks, imm) THEN Panic(self)
    ELSE Done(SetReg(self, rd, Sar32(self.regs[rs1], ShiftAmount(imm))))

\* execute: [panic, self, status]; status is the u8 it returns.
Status(r, s) == [panic |-> r.panic, self |-> r.self, status |-> s]

execute(self, checks, inst) ==
    LET a  == inst.inst_type
        op == inst.inst
    IN
    CASE op = "LUI"   -> Status(lui(self, a.rd, a.imm), 0)
      [] op = "AUIPC" -> Status(auipc(self, a.rd, a.imm), 0)
      [] op = "JAL"   -> Status(jal(self, a.rd, AsI16(a.imm)), 0)
      [] op = "JALR"  -> Status(jalr(self, a.rd, a.rs1, a.imm), 0)
      [] op = "BEQ"   -> Status(beq(self, a.rs1, a.rs2, a.imm), 0)
      [] op = "BNE"   -> Status(bne(self, a.rs1, a.rs2, a.imm), 0)
      [] op = "BLT"   -> Status(blt(self, a.rs1, a.rs2, a.imm), 0)
      [] op = "BGE"   -> Status(bge(self, a.rs1, a.rs2, a.imm), 0)
      [] op = "BLTU"  -> Status(bltu(self, a.rs1, a.rs2, a.imm), 0)
      [] op = "BGEU"  -> Status(bgeu(self, a.rs1, a.rs2, a.imm), 0)
      [] op = "LB"    -> Status(lb(self, a.rd, a.rs1, a.imm), 0)
      [] op = "LH"    -> Status(lh(self, a.rd, a.rs1, a.imm), 0)
      [] op = "LW"    -> Status(lw(self, a.rd, a.rs1, a.imm), 0)
      [] op = "LBU"   -> Status(lbu(self, a.rd, a.rs1, a.imm), 0)
      [] op = "LHU"   -> Status(lhu(self, a.rd, a.rs1, a.imm), 0)
      [] op = "SB"    -> Status(sb(self, a.rs1, a.rs2, a.imm), 0)
      [] op = "SH"    -> Status(sh(self, a.rs1, a.rs2, a.imm), 0)
      [] op = "SW"    -> Status(sw(self, a.rs1, a.rs2, a.imm), 0)
      [] op = "ADDI"  -> Status(addi(self, a.rd, a.rs1, a.imm), 0)
      [] op = "SLTI"  -> Status(slti(self, a.rd, a.rs1, a.imm), 0)
      [] op = "SLTIU" -> Status(sltiu(self, a.rd, a.rs1, a.imm), 0)
      [] op = "XORI"  -> Status(xori(self, a.rd, a.rs1, a.imm), 0)
      [] op = "ORI"   -> Status(ori(self, a.rd, a.rs1, a.imm), 0)
      [] op = "ANDI"  -> Status(andi(self, a.rd, a.rs1, a.imm), 0)
      [] op = "SLLI"  -> Status(slli(self, checks, a.rd, a.rs1, a.imm), 0)
      [] op = "SRLI"  -> Status(srli(self, checks, a.rd, a.rs1, a.imm), 0)
      [] op = "SRAI"  -> Status(srai(self, checks, a.rd, a.rs1, a.imm), 0)
      [] OTHER        -> Status(Done(self), 1)   \* Unimplemented instruction

\* load writing from address 0 whatever pc is.
RECURSIVE load_at_zero(_, _, _)
load_at_zero(self, instructions, i) ==
    IF i > Len(instructions) THEN Done(self)
    ELSE IF ~InBounds(i - 1) THEN Panic(self)
    ELSE load_at_zero([self EXCEPT
                         !.memory = MemSet(self.memory, i - 1,
                                           instructions[i])],
                      instructions, i + 1)

\* load: memory[i + self.pc] = instructions[i], in order, each indexing
\* bounds-checked.
RECURSIVE load(_, _, _)
load(self, instructions, i) ==
    IF i > Len(instructions) THEN Done(self)
    ELSE IF ~InBounds((i - 1) + self.pc) THEN Panic(self)
    ELSE load([self EXCEPT
                 !.memory = MemSet(self.memory, (i - 1) + self.pc,
                                   instructions[i])],
              instructions, i + 1)

\* from_inst: the words' little-endian bytes, then load.
RECURSIVE le_bytes_of(_)
le_bytes_of(instruction) ==
    IF instruction = <<>> THEN <<>>
    ELSE <<to_le_bytes(Head(instruction), 0), to_le_bytes(Head(instruction), 1),
           to_le_bytes(Head(instruction), 2), to_le_bytes(Head(instruction), 3)>>
         \o le_bytes_of(Tail(instruction))

from_inst(self, instruction) == load(self, le_bytes_of(instruction), 1)

\* An iteration that records the instruction only when it ends the run.
run_iteration_recording_last_only(self, checks) ==
    LET f == fetch(self)
    IN  IF f.panic
        THEN [panic |-> TRUE, self |-> f.self, status |-> 0,
              returned |-> FALSE, value |-> 0]
        ELSE
        LET d == decode(f.inst)
        IN  IF d.tag # "Ok"
            THEN [panic |-> TRUE, self |-> f.self, status |-> 0,
                  returned |-> FALSE, value |-> 0]
            ELSE
            LET e == execute(f.self, checks, d.val)
                stop == e.self.exit_on_nop /\ is_nop(d.val)
            IN  IF e.panic
                THEN [panic |-> TRUE, self |-> e.self, status |-> 0,
                      returned |-> FALSE, value |-> 0]
                ELSE [panic |-> FALSE,
                      self |-> IF stop
                               THEN [e.self EXCEPT !.last_inst = <<d.val>>]
                               ELSE e.self,
                      status |-> e.status,
                      returned |-> stop,
                      value |-> 0]

\* An iteration that returns the status of execute when it is not 0.
run_iteration_stopping_on_status(self, checks) ==
    LET f == fetch(self)
    IN  IF f.panic
        THEN [panic |-> TRUE, self |-> f.self, status |-> 0,
              returned |-> FALSE, value |-> 0]
        ELSE
        LET d == decode(f.inst)
        IN  IF d.tag # "Ok"
            THEN [panic |-> TRUE, self |-> f.self, status |-> 0,
                  returned |-> FALSE, value |-> 0]
            ELSE
            LET e == execute(f.self, checks, d.val)
            IN  IF e.panic
                THEN [panic |-> TRUE, self |-> e.self, status |-> 0,
                      returned |-> FALSE, value |-> 0]
                ELSE [panic |-> FALSE,
                      self |-> [e.self EXCEPT !.last_inst = <<d.val>>],
                      status |-> e.status,
                      returned |-> \/ e.status # 0
                                   \/ e.self.exit_on_nop /\ is_nop(d.val),
                      value |-> e.status]

\* One iteration of run's loop: [panic, self, status, returned, value].
run_iteration(self, checks) ==
    LET f == fetch(self)
    IN  IF f.panic
        THEN [panic |-> TRUE, self |-> f.self, status |-> 0,
              returned |-> FALSE, value |-> 0]
        ELSE
        LET d == decode(f.inst)
        IN  IF d.tag # "Ok"
            THEN [panic |-> TRUE, self |-> f.self, status |-> 0,
                  returned |-> FALSE, value |-> 0]
            ELSE
            LET e == execute(f.self, checks, d.val)
            IN  IF e.panic
                THEN [panic |-> TRUE, self |-> e.self, status |-> 0,
                      returned |-> FALSE, value |-> 0]
                ELSE [panic |-> FALSE,
                      self |-> [e.self EXCEPT !.last_inst = <<d.val>>],
                      status |-> e.status,
                      returned |-> e.self.exit_on_nop /\ is_nop(d.val),
                      value |-> 0]

---------------------------------------------------------------------------
\* Instruction words given to the CPU, by RV32I format.

\* The low 20 bits `low` under a 12-bit field `top` (bits 31:20).
Word(top, low) == W((top % 4096) * 16 + (low \div 65536), low % 65536)

EncI(opcode, funct3, rd, rs1, imm) ==
    Word(imm, rs1 * 32768 + funct3 * 4096 + rd * 128 + opcode)

EncR(funct7, funct3, rd, rs1, rs2) ==
    Word(funct7 * 32 + rs2, rs1 * 32768 + funct3 * 4096 + rd * 128 + 51)

EncS(funct3, rs1, rs2, imm) ==
    Word(((imm \div 32) % 128) * 32 + rs2,
         rs1 * 32768 + funct3 * 4096 + (imm % 32) * 128 + 35)

\* imm is the byte offset (even, -4096 .. 4094).
EncB(funct3, rs1, rs2, imm) ==
    Word(((imm \div 4096) % 2) * 2048 + ((imm \div 32) % 64) * 32 + rs2,
         rs1 * 32768 + funct3 * 4096
           + (((imm \div 2) % 16) * 2 + ((imm \div 2048) % 2)) * 128 + 99)

\* imm20 is the raw field of bits 31:12.
EncU(opcode, rd, imm20) ==
    W((imm20 \div 16) % 65536, (imm20 % 16) * 4096 + rd * 128 + opcode)

\* imm is the byte offset (even, -2^20 .. 2^20 - 2).
EncJ(rd, imm) ==
    EncU(111, rd, ((imm \div 1048576) % 2) * 524288
                    + ((imm \div 2) % 1024) * 512
                    + ((imm \div 2048) % 2) * 256
                    + ((imm \div 4096) % 256))

ADDI(rd, rs1, imm)  == EncI(19, 0, rd, rs1, imm)
SLTI(rd, rs1, imm)  == EncI(19, 2, rd, rs1, imm)
SLTIU(rd, rs1, imm) == EncI(19, 3, rd, rs1, imm)
SRLI(rd, rs1, shamt) == EncI(19, 5, rd, rs1, shamt)
JALR(rd, rs1, imm)  == EncI(103, 0, rd, rs1, imm)
LW(rd, rs1, imm)    == EncI(3, 2, rd, rs1, imm)
LUI(rd, imm20)      == EncU(55, rd, imm20)
JAL(rd, imm)        == EncJ(rd, imm)
BEQ(rs1, rs2, imm)  == EncB(0, rs1, rs2, imm)
BNE(rs1, rs2, imm)  == EncB(1, rs1, rs2, imm)
ADD(rd, rs1, rs2)   == EncR(0, 0, rd, rs1, rs2)
AUIPC(rd, imm20)    == EncU(23, rd, imm20)
SLLI(rd, rs1, shamt) == EncI(19, 1, rd, rs1, shamt)
LB(rd, rs1, imm)    == EncI(3, 0, rd, rs1, imm)
LBU(rd, rs1, imm)   == EncI(3, 4, rd, rs1, imm)
\* Stores in assembly order: the source register, the base, the offset.
SB(rs2, rs1, imm)   == EncS(0, rs1, rs2, imm)
SH(rs2, rs1, imm)   == EncS(1, rs1, rs2, imm)
SW(rs2, rs1, imm)   == EncS(2, rs1, rs2, imm)
ECALL  == EncI(115, 0, 0, 0, 0)
EBREAK == EncI(115, 0, 0, 0, 1)
FENCE  == EncI(15, 0, 0, 0, 0)

\* tests::addi (seven words) and the six-word ADDI chain.
ProgAddiTest ==
    <<W(\h0640, \h8093), W(\h00A0, \h8113), W(\hFFF1, \h0193),
      W(\h7FF2, \h0213), W(\h8002, \h0293), W(\h8013, \h0313),
      W(\h8013, \h0313)>>
ProgAddiChain == SubSeq(ProgAddiTest, 1, 6)

\* tests::slti, tests::sltiu
ProgSltiTest  == <<SLTI(1, 0, 100), SLTI(2, 0, -1)>>
ProgSltiuTest == <<SLTIU(1, 0, 100), SLTIU(2, 0, -1)>>

\* Branch taken over one instruction; JAL/JALR round trip.
ProgBranch ==
    <<ADDI(1, 0, 5), ADDI(2, 0, 5), BEQ(1, 2, 8), ADDI(3, 0, 1), ADDI(4, 0, 2)>>
ProgJalJalr == <<JAL(1, 8), ADDI(5, 0, 99), JALR(0, 1, 0), ADDI(0, 0, 0)>>

\* Programs that meet the driver's special cases.
ProgSpecial ==
    { <<ECALL, ADDI(1, 0, 5)>>,
      <<EBREAK, ADDI(1, 0, 5)>>,
      <<FENCE, ADDI(1, 0, 5)>>,
      <<ADD(1, 0, 0), ADDI(1, 0, 5)>>,
      <<127, ADDI(1, 0, 5)>>,                \* opcode 1111111
      <<EncI(103, 1, 1, 0, 0)>>,             \* JALR with funct3 = 1
      <<128, ADDI(1, 0, 5)>>,                \* opcode 0000000, not all zero
      <<ADDI(0, 0, 0), ADDI(1, 0, 5)>>,      \* the canonical NOP first
      <<ADDI(0, 0, 5), ADDI(1, 0, 7)>>,
      <<LUI(0, 5)>>,
      <<ADDI(1, 0, 5), JAL(0, 8)>>,
      <<ADDI(1, 0, 1), LW(0, 0, 0)>>,
      <<ADDI(1, 0, -1), LW(2, 1, 0)>>,       \* load at 0xFFFFFFFF
      <<LUI(1, 65532), JALR(0, 1, 0)>>,      \* run off the end of memory
      <<ADDI(1, 0, 5), BNE(1, 0, -4)>>,
      <<ADDI(1, 0, 5), ADDI(2, 0, 5), ADDI(3, 0, 1), BEQ(0, 0, -16)>>,
      <<ADDI(1, 0, 5), JAL(1, -4)>>,
      <<ADDI(1, 0, -1), SRLI(1, 1, 1), ADDI(2, 1, 1)>> }   \* 0x7FFFFFFF + 1

\* Immediate instructions on a register set by a first ADDI.
ImmValues == {0, 1, 100, 2047, -1, -2048}
ProgImm ==
    { <<ADDI(1, 0, a), EncI(19, f3, rd, 1, b)>> :
        a \in {0, 1, -1, -2048}, f3 \in {0, 2, 3}, rd \in {0, 1, 2},
        b \in ImmValues }

\* Jumps through a register: rd = rs1, odd and negative-offset targets.
ProgJalr ==
    { <<ADDI(1, 0, 5), JALR(1, 1, 0)>>,
      <<ADDI(1, 0, 12), JALR(1, 1, -4)>>,
      <<ADDI(1, 0, 5), JALR(0, 1, 0)>>,
      <<ADDI(1, 0, 6), JALR(2, 1, 6)>>,
      <<JAL(0, 4096)>> }

\* Upper-immediate instructions.
ProgLuiOnly == <<W(0, \h10B7)>>                      \* 0x000010B7, LUI x1,1
ProgLuiAuipc == <<LUI(1, 1), AUIPC(2, 0)>>
ProgUpper ==
    { ProgLuiOnly, ProgLuiAuipc,
      <<LUI(1, 1048575), AUIPC(2, 524288)>>,
      <<ADDI(1, 0, 5), AUIPC(1, 1)>> }

\* Instruction sequences leaving 0x12345678, 0x8F8E7F8C in x1.
ValSetups ==
    { <<LUI(1, 74565), SLLI(1, 1, 12), ADDI(1, 1, 1656)>>,
      <<LUI(1, 588008), SLLI(1, 1, 12), ADDI(1, 1, -116)>> }

\* A store of x1, an overlapping SH of x3 = 0xFFFFFFFE, then a load.
ProgStoreLoad ==
    { s \o <<ADDI(3, 0, -2), EncS(f1, 0, 1, a1), SH(3, 0, 66),
             EncI(3, f2, 2, 0, a2)>> :
        s \in ValSetups, f1 \in 0..2, a1 \in {64, 65},
        f2 \in {0, 1, 2, 4, 5}, a2 \in {64, 65, 66} }

\* Loads through a base register with a negative offset.
ProgLoadNeg ==
    { s \o <<SW(1, 0, 64), ADDI(4, 0, 70), EncI(3, f2, 2, 4, off)>> :
        s \in ValSetups, f2 \in {0, 1, 2, 4, 5}, off \in {-6, -5, -3} }

\* SW of x1 then LW into x2 at the same address, x4 being the base.
SwLwBases ==
    { <<LUI(4, 65532), 0>>, <<LUI(4, 65532), -3>>, <<LUI(4, 65536), -4>>,
      <<ADDI(4, 0, 100), 2047>>, <<ADDI(4, 0, 2047), -2047>>,
      <<ADDI(4, 0, 0), 40>> }
ProgSwLw ==
    { s \o <<b[1], SW(1, 4, b[2]), LW(2, 4, b[2])>> :
        s \in ValSetups \cup {<<ADDI(1, 0, -1)>>}, b \in SwLwBases }

\* ADDI x1,x0,-1; SB x1,0(x0); LBU x2,0(x0); LB x3,0(x0)
ProgByteExt == <<ADDI(1, 0, -1), SB(1, 0, 0), LBU(2, 0, 0), LB(3, 0, 0)>>

\* Register-register instructions on x1 = 0xFFFFFFF9 (or 5) and x2 = 35.
RTypeCodes ==
    { <<0, 0>>, <<32, 0>>, <<0, 1>>, <<0, 2>>, <<0, 3>>, <<0, 4>>, <<0, 5>>,
      <<32, 5>>, <<0, 6>>, <<0, 7>> }
ProgRType ==
    { <<ADDI(1, 0, a), ADDI(2, 0, 35), EncR(c[1], c[2], 3, 1, 2)>> :
        a \in {5, -7}, c \in RTypeCodes }

\* Words outside the instruction set, each followed by an ADDI.
IllegalWords ==
    { 128, W(\hFFFF, \hFF80), 4096,                 \* opcode 0000000
      127, 1, W(\h0050, \h00FF),                    \* opcodes not in the set
      EncR(1, 0, 3, 1, 2), EncR(32, 1, 3, 1, 2), EncR(32, 7, 3, 1, 2),
      EncR(64, 5, 3, 1, 2),
      EncB(2, 1, 2, 8), EncB(3, 1, 2, 8),
      EncI(3, 3, 2, 0, 0), EncI(3, 6, 2, 0, 0), EncI(3, 7, 2, 0, 0),
      EncS(3, 0, 1, 64), EncS(7, 0, 1, 64),
      EncI(103, 1, 1, 0, 0), EncI(103, 7, 1, 0, 0) }
ProgIllegal == { <<w, ADDI(1, 0, 5)>> : w \in IllegalWords }

\* Branches whose offset needs bit 12 of the immediate.
ProgBranchFar ==
    { <<EncB(1, 0, 0, 2048)>>, <<EncB(0, 0, 0, -4096)>>,
      <<EncB(1, 0, 0, -2050), ADDI(1, 0, 5)>>,
      <<EncB(1, 0, 0, 4094), ADDI(1, 0, 5)>> }

\* Shifts by an immediate of x1 = 0xFFFFFFF9 or 5; 1024 is bit 30 (SRAI).
SRAI(rd, rs1, shamt) == EncI(19, 5, rd, rs1, 1024 + shamt)
ProgShift ==
    { <<ADDI(1, 0, a), w>> :
        a \in {5, -7},
        w \in {SLLI(2, 1, 0), SLLI(2, 1, 31), SRLI(2, 1, 3), SRLI(2, 1, 31),
               SRAI(2, 1, 0), SRAI(2, 1, 1), SRAI(2, 1, 31)} }

\* FENCE words, with other fields set, between two ADDIs.
FenceWords == { FENCE, EncI(15, 0, 0, 0, 255), EncI(15, 0, 1, 1, -1) }
ProgFence == { <<ADDI(1, 0, 5), w, ADDI(2, 1, 1)>> : w \in FenceWords }

\* Each conditional branch on x1 and x2 of either sign.
ProgCompare ==
    { <<ADDI(1, 0, a), ADDI(2, 0, b), EncB(f3, 1, 2, 8)>> :
        a \in {-1, 1, 5}, b \in {1, -1}, f3 \in {0, 1, 4, 5, 6, 7} }

\* Stores of x1 = 0xFFFFFFAA through the base x4 = 0x1000 or 0x3000.
ProgStoreAt1000 == <<LUI(4, 4096), ADDI(1, 0, -86), SW(1, 4, -4)>>
ProgStoreAt3000 == <<LUI(4, 12288), ADDI(1, 0, -86), SW(1, 4, 0)>>
ProgStoreFar ==
    { <<LUI(4, b), ADDI(1, 0, -86), EncS(f3, 4, 1, off)>> :
        b \in {4096, 12288}, f3 \in 0..2, off \in {-4, 0, 2047, -2048} }

\* Shift-immediate words whose bits 31:25 are not those of the instruction.
ShiftBadWords ==
    { EncI(19, 1, 2, 1, 1024 + 1), EncI(19, 1, 2, 1, 32 + 1),
      EncI(19, 1, 2, 1, -2048 + 1), EncI(19, 5, 2, 1, 32 + 1),
      EncI(19, 5, 2, 1, 1024 + 512 + 1), EncI(19, 5, 2, 1, -1) }
ProgShiftBad == { <<ADDI(1, 0, 5), w>> : w \in ShiftBadWords }

\* Register-register words naming high registers.
ProgRTypeRegs ==
    { <<EncR(32, 5, 31, 17, 30)>>, <<EncR(0, 3, 0, 31, 1)>>,
      <<EncR(32, 0, 16, 8, 4), ADDI(1, 0, 5)>> }

\* A jump to 0xFFFA: the zero word there ends the run with pc = 0xFFFE.
ProgJumpNearEnd == <<LUI(1, 65530), JALR(0, 1, 0)>>

\* Loads and stores through x4 = 0xFFFE, at and across the end of memory.
EdgeWords ==
    { SW(1, 4, 0), SW(1, 4, -1), SW(1, 4, 2), SH(1, 4, 1), SH(1, 4, 0),
      SB(1, 4, 2), SB(1, 4, 1), LW(2, 4, 0), EncI(3, 1, 2, 4, 1),
      EncI(3, 5, 2, 4, 1), LB(2, 4, 2), LBU(2, 4, 1) }
ProgEdge == { <<LUI(4, 65534), ADDI(1, 0, -86), w>> : w \in EdgeWords }

\* Words given one at a time to a CPU that has already run.
NextWords == { ADDI(1, 1, 1), SLLI(7, 1, 4) }

Programs ==
    {ProgAddiTest, ProgAddiChain, ProgSltiTest, ProgSltiuTest, ProgBranch,
     ProgJalJalr, ProgByteExt}
      \cup ProgSpecial \cup ProgImm \cup ProgJalr \cup ProgUpper
      \cup ProgStoreLoad \cup ProgLoadNeg \cup ProgSwLw \cup ProgRType
      \cup ProgIllegal \cup ProgBranchFar \cup ProgShift \cup ProgFence
      \cup ProgCompare \cup ProgStoreFar \cup ProgShiftBad
      \cup ProgRTypeRegs \cup {ProgJumpNearEnd} \cup ProgEdge

---------------------------------------------------------------------------
\* The state: the CPU's fields, and what its caller observes.

VARIABLES
    regs,             \* CPU.regs
    pc,               \* CPU.pc
    memory,           \* CPU.memory
    exit_on_nop,      \* CPU.exit_on_nop
    last_inst,        \* CPU.last_inst: <<>> (None) or <<inst>> (Some)
    ctl,              \* "new", "loaded", "running", "returned", "panicked"
    ret,              \* what run returned: <<>> or <<value>>
    exec_status,      \* what the last call of execute returned: <<>>, <<u8>>
    steps,            \* iterations of run's loop so far
    loaded,           \* the words given to from_inst
    overflow_checks   \* whether the build checks arithmetic overflow

vars == <<regs, pc, memory, exit_on_nop, last_inst, ctl, ret, exec_status,
          steps, loaded, overflow_checks>>

CPU ==
    [regs |-> regs, pc |-> pc, memory |-> memory,
     exit_on_nop |-> exit_on_nop, last_inst |-> last_inst]

SetCPU(self) ==
    /\ regs' = self.regs
    /\ pc' = self.pc
    /\ memory' = self.memory
    /\ exit_on_nop' = self.exit_on_nop
    /\ last_inst' = self.last_inst

Init ==
    /\ regs = CPU_new.regs
    /\ pc = CPU_new.pc
    /\ memory = CPU_new.memory
    /\ exit_on_nop = CPU_new.exit_on_nop
    /\ last_inst = CPU_new.last_inst
    /\ ctl = "new"
    /\ ret = <<>>
    /\ exec_status = <<>>
    /\ steps = 0
    /\ loaded = <<>>
    /\ overflow_checks \in BOOLEAN

\* init_cpu_test (main.rs): exit_on_nop is set on the new CPU.
init_cpu_test ==
    /\ ctl = "new"
    /\ ~exit_on_nop
    /\ exit_on_nop' = TRUE
    /\ UNCHANGED <<regs, pc, memory, last_inst, ctl, ret, exec_status, steps,
                   loaded, overflow_checks>>

\* cpu.from_inst(words) on the new CPU.
FromInst ==
    /\ ctl = "new"
    /\ \E words \in Programs :
         LET r == from_inst(CPU, words)
         IN  /\ SetCPU(r.self)
             /\ ctl' = IF r.panic THEN "panicked" ELSE "loaded"
             /\ loaded' = words
    /\ UNCHANGED <<ret, exec_status, steps, overflow_checks>>

\* cpu.from_inst(vec![word]) on a CPU whose run has returned, as
\* execute_i_instruction (main.rs) does for each instruction typed in: the
\* word is loaded at the current pc.
FromInstAgain ==
    /\ ctl = "returned"
    /\ steps < MaxSteps
    /\ \E word \in NextWords :
         LET r == from_inst(CPU, <<word>>)
         IN  /\ SetCPU(r.self)
             /\ ctl' = IF r.panic THEN "panicked" ELSE "loaded"
             /\ loaded' = <<word>>
    /\ UNCHANGED <<ret, exec_status, steps, overflow_checks>>

\* cpu.run(): one iteration of its loop per step.
Run ==
    /\ ctl \in {"new", "loaded", "running"}
    /\ steps < MaxSteps
    /\ LET r == run_iteration(CPU, overflow_checks)
       IN  /\ SetCPU(r.self)
           /\ ctl' = IF r.panic THEN "panicked"
                     ELSE IF r.returned THEN "returned"
                     ELSE "running"
           /\ ret' = IF ~r.panic /\ r.returned THEN <<r.value>> ELSE ret
           /\ exec_status' = IF r.panic THEN exec_status ELSE <<r.status>>
    /\ steps' = steps + 1
    /\ UNCHANGED <<loaded, overflow_checks>>

Next == init_cpu_test \/ FromInst \/ FromInstAgain \/ Run

Spec == Init /\ [][Next]_vars

TypeOK ==
    /\ regs \in [0..31 -> Int]
    /\ pc \in Int
    /\ exit_on_nop \in BOOLEAN
    /\ Len(last_inst) <= 1
    /\ ctl \in {"new", "loaded", "running", "returned", "panicked"}
    /\ steps \in 0..MaxSteps

---------------------------------------------------------------------------
\* Vocabulary of the properties: the RV32I reading of a word, independent
\* of the decoder above.

\* v, an n-bit field, read as an n-bit two's-complement number.
SignExtend(v, n) == IF v >= 2 ^ (n - 1) THEN v - 2 ^ n ELSE v

F_opcode(w) == Bits(w, 0, 7)
F_rd(w)     == Bits(w, 7, 5)
F_funct3(w) == Bits(w, 12, 3)
F_rs1(w)    == Bits(w, 15, 5)
F_rs2(w)    == Bits(w, 20, 5)
I_imm(w)    == SignExtend(Bits(w, 20, 12), 12)
B_imm(w) ==
    SignExtend(Bits(w, 31, 1) * 4096 + Bits(w, 7, 1) * 2048
               + Bits(w, 25, 6) * 32 + Bits(w, 8, 4) * 2, 13)
J_imm(w) ==
    SignExtend(Bits(w, 31, 1) * 1048576 + Bits(w, 12, 8) * 4096
               + Bits(w, 20, 1) * 2048 + Bits(w, 21, 10) * 2, 21)

\* The word the next iteration of run fetches, when pc is inside memory.
CanFetch == InBounds(pc) /\ InBounds(pc + 3)
CurWord ==
    W(MemGet(memory, pc + 3) * 256 + MemGet(memory, pc + 2),
      MemGet(memory, pc + 1) * 256 + MemGet(memory, pc))

\* This step is an iteration of run that fetches a word of the given kind.
Executes(opcode, funct3) ==
    /\ steps' = steps + 1
    /\ CanFetch
    /\ F_opcode(CurWord) = opcode
    /\ F_funct3(CurWord) = funct3

\* The instruction of the last completed iteration was the word w.
LastWas(w) == last_inst # <<>> /\ last_inst[1].raw = w

Regs(r1, r2, r3, r4, r5, r6) ==
    [i \in 0..31 |->
       CASE i = 1 -> r1 [] i = 2 -> r2 [] i = 3 -> r3
         [] i = 4 -> r4 [] i = 5 -> r5 [] i = 6 -> r6 [] OTHER -> 0]

---------------------------------------------------------------------------
\* C1 (as claimed): register 0 holds 0 in every reachable state, whatever
\* instruction was executed, also one whose rd field is 0.
C1_X0AlwaysZero == regs[0] = 0

C3_AddiChainAsClaimed ==
    (exit_on_nop /\ loaded = ProgAddiChain /\ ctl = "returned")
      => regs = Regs(100, 110, 109, 2047, W(\hFFFF, \hFFFF), W(\hFFFF, \hF002))

\* C3 (amended): the run of the six-word chain does not panic, has returned
\* 0 after its seventh iteration (the zero word), and ends with x1=100,
\* x2=110, x3=109, x4=2047, x5=0xFFFFFFFF, x6=0xFFFFF801, all others 0.
C3_AddiChain ==
    (exit_on_nop /\ loaded = ProgAddiChain)
      => /\ ctl # "panicked"
         /\ steps >= 7 => ctl = "returned"
         /\ ctl = "returned"
              => /\ ret = <<0>>
                 /\ steps = 7
                 /\ regs = Regs(100, 110, 109, 2047, W(\hFFFF, \hFFFF),
                                W(\hFFFF, \hF801))

C3_Witness == exit_on_nop /\ loaded = ProgAddiChain /\ ctl = "returned"

\* C4: an iteration of run that fetches SLTI rd,rs1,imm leaves regs[rd] = 1
\* if old regs[rs1] < sext12(imm) as signed 32-bit integers, else 0.
C4_SltiSigned ==
    [][Executes(19, 2)
         => /\ ctl' # "panicked"
            /\ regs'[F_rd(CurWord)]
                 = IF regs[F_rs1(CurWord)] < I_imm(CurWord) THEN 1 ELSE 0]_vars

\* C4 witness: SLTI x2,x1,1 with x1 = 0xFFFFFFFF (-1 < 1) has set x2 = 1.
C4_Witness == LastWas(SLTI(2, 1, 1)) /\ regs[1] = -1 /\ regs[2] = 1

\* C5: an iteration of run that fetches SLTIU rd,rs1,imm leaves regs[rd] = 1
\* if old regs[rs1] < sext12(imm), both read as unsigned 32-bit, else 0.
C5_SltiuUnsigned ==
    [][Executes(19, 3)
         => /\ ctl' # "panicked"
            /\ regs'[F_rd(CurWord)]
                 = IF LtU(regs[F_rs1(CurWord)], I_imm(CurWord)) THEN 1
                   ELSE 0]_vars

\* C5 witness: SLTIU x2,x0,-1 has set x2 = 1 (0 < 0xFFFFFFFF).
C5_Witness == LastWas(SLTIU(2, 0, -1)) /\ regs[0] = 0 /\ regs[2] = 1

\* The canonical NOP words: ADDI x0,x0,0 (0x00000013) and the all-zero word.
IsNopWord(w) == w = 19 \/ w = 0

\* C6 (as claimed): with exit_on_nop, run returns 0 right after the first
\* iteration that fetched a NOP word and never before: when it has returned
\* the last instruction is a NOP word, and once a NOP word has been
\* executed it has returned.
C6_ReturnsAtFirstNop ==
    /\ ctl = "returned"
         => exit_on_nop /\ ret = <<0>> /\ IsNopWord(last_inst[1].raw)
    /\ (exit_on_nop /\ last_inst # <<>> /\ IsNopWord(last_inst[1].raw))
         => ctl = "returned"

\* The words of an environment call or break.
IsEnvWord(w) == w = ECALL \/ w = EBREAK

\* C7 (as claimed): a decode failure, an access outside memory or an
\* ECALL/EBREAK ends run with status 1 reported to the caller: run never
\* ends without a status, an executed ECALL/EBREAK has made run return 1,
\* and without exit_on_nop run returns only 1.
C7_FaultsReturnOne ==
    /\ ctl # "panicked"
    /\ (last_inst # <<>> /\ IsEnvWord(last_inst[1].raw))
         => (ctl = "returned" /\ ret = <<1>>)
    /\ (ctl = "returned" /\ ~exit_on_nop) => ret = <<1>>

\* C8 (as claimed): when execute has returned a non-zero status, run has
\* stopped at that instruction and returned that status.
C8_StatusStopsRun ==
    (exec_status # <<>> /\ exec_status[1] # 0)
      => (ctl = "returned" /\ ret = exec_status)

\* The condition of the branch word w on the registers r.
BranchCond(w, r) ==
    LET a == r[F_rs1(w)]
        b == r[F_rs2(w)]
    IN  CASE F_funct3(w) = 0 -> a = b
          [] F_funct3(w) = 1 -> a # b
          [] F_funct3(w) = 4 -> a < b
          [] F_funct3(w) = 5 -> a >= b
          [] F_funct3(w) = 6 -> LtU(a, b)
          [] F_funct3(w) = 7 -> ~LtU(a, b)
          [] OTHER -> FALSE

\* C9 (as claimed): after a conditional branch fetched at pc, the next fetch
\* address is (pc + B-imm) mod 2^32 if its condition holds and pc + 4
\* otherwise; and the branch program ends with x1=5, x2=5, x3=0, x4=2.
C9_BranchTarget ==
    /\ [][(steps' = steps + 1 /\ CanFetch /\ F_opcode(CurWord) = 99
             /\ F_funct3(CurWord) \in {0, 1, 4, 5, 6, 7})
            => pc' = IF BranchCond(CurWord, regs)
                     THEN Add32(pc, B_imm(CurWord))
                     ELSE pc + 4]_vars
    /\ []((exit_on_nop /\ loaded = ProgBranch /\ ctl = "returned")
            => regs = Regs(5, 5, 0, 2, 0, 0))

\* C10 (as claimed): JAL rd,imm fetched at pc sets regs[rd] = pc + 4 and
\* the next fetch address to (pc + J-imm) mod 2^32; and the JAL/JALR
\* program ends at its NOP with x1 = 4 and x5 = 0.
C10_JalLinkAndTarget ==
    /\ [][(steps' = steps + 1 /\ CanFetch /\ F_opcode(CurWord) = 111)
            => /\ F_rd(CurWord) # 0 => regs'[F_rd(CurWord)] = pc + 4
               /\ pc' = Add32(pc, J_imm(CurWord))]_vars
    /\ []((exit_on_nop /\ loaded = ProgJalJalr /\ ctl = "returned")
            => (LastWas(ADDI(0, 0, 0)) /\ regs[1] = 4 /\ regs[5] = 0))

\* This step is an iteration of run that fetches a word.
RunStep == steps' = steps + 1 /\ CanFetch

\* v with bit 0 cleared; the word w with its low 12 bits cleared.
ClearBit0(v) == v - (v % 2)
UpperImm(w)  == w - (w % 4096)

\* C11 (as claimed): JALR rd,rs1,imm fetched at pc sets the next fetch
\* address to (old regs[rs1] + sext12(imm)) mod 2^32 with bit 0 cleared and
\* regs[rd] to pc + 4, the target taken from rs1 before rd is written.
C11_JalrTargetAndLink ==
    [][(RunStep /\ F_opcode(CurWord) = 103 /\ F_funct3(CurWord) = 0)
         => /\ pc' = ClearBit0(Add32(regs[F_rs1(CurWord)], I_imm(CurWord)))
            /\ F_rd(CurWord) # 0 => regs'[F_rd(CurWord)] = pc + 4]_vars

\* C12 (as claimed): LUI rd,imm leaves regs[rd] = word AND 0xFFFFF000, and
\* the word 0x000010B7 leaves x1 = 0x00001000.
C12_LuiUpper ==
    /\ [][(RunStep /\ F_opcode(CurWord) = 55 /\ F_rd(CurWord) # 0)
            => regs'[F_rd(CurWord)] = UpperImm(CurWord)]_vars
    /\ []((loaded = ProgLuiOnly /\ steps >= 1) => regs[1] = 4096)

\* C13 (as claimed): AUIPC rd,imm fetched at pc leaves regs[rd] =
\* (pc + (word AND 0xFFFFF000)) mod 2^32; LUI x1,1 at 0 then AUIPC x2,0 at 4
\* leaves x1 = 0x1000 and x2 = 4.
C13_AuipcAddsOwnAddress ==
    /\ [][(RunStep /\ F_opcode(CurWord) = 23 /\ F_rd(CurWord) # 0)
            => regs'[F_rd(CurWord)] = Add32(pc, UpperImm(CurWord))]_vars
    /\ []((loaded = ProgLuiAuipc /\ steps >= 2)
            => (regs[1] = 4096 /\ regs[2] = 4))

\* C14 (as claimed): whenever run is about to fetch, pc is a multiple of 4.
C14_FetchAligned ==
    (ctl \in {"new", "loaded", "running"} /\ CanFetch) => pc % 4 = 0

\* The S-type immediate of a word; byte i of a 32-bit value.
S_imm(w) == SignExtend(Bits(w, 25, 7) * 32 + Bits(w, 7, 5), 12)
ByteOf(v, i) == (v \div (256 ^ i)) % 256

IsStore(w) == F_opcode(w) = 35 /\ F_funct3(w) \in {0, 1, 2}
IsLoad(w)  == F_opcode(w) = 3 /\ F_funct3(w) \in {0, 1, 2, 4, 5}
\* Bytes accessed by a load or store with the given funct3.
AccessWidth(f3) == CASE f3 \in {0, 4} -> 1 [] f3 \in {1, 5} -> 2 [] OTHER -> 4
\* The n bytes from address a lie inside memory.
InRange(a, n) == a >= 0 /\ a + n <= MemSize

\* C15: a store SB/SH/SW at an in-range address a = regs[rs1] + sext12(imm)
\* does not panic and leaves byte (x - a) of regs[rs2] at each x it covers
\* and every other byte as it was; no other instruction changes memory; a
\* load at an in-range address, aligned or not, does not panic and leaves
\* in the low bytes of regs[rd] exactly the bytes of memory at its address.
C15_StoreLoadBytes ==
    [][RunStep =>
         LET w == CurWord
             n == AccessWidth(F_funct3(w))
             sa == Add32(regs[F_rs1(w)], S_imm(w))
             la == Add32(regs[F_rs1(w)], I_imm(w))
         IN  /\ (IsStore(w) /\ InRange(sa, n))
                  => /\ ctl' # "panicked"
                     /\ \A x \in (DOMAIN memory \cup DOMAIN memory'
                                    \cup (sa .. sa + n - 1)) :
                          MemGet(memory', x)
                            = IF x \in sa .. sa + n - 1
                              THEN ByteOf(regs[F_rs2(w)], x - sa)
                              ELSE MemGet(memory, x)
             /\ ~IsStore(w) => memory' = memory
             /\ (IsLoad(w) /\ InRange(la, n) /\ F_rd(w) # 0)
                  => /\ ctl' # "panicked"
                     /\ \A i \in 0 .. n - 1 :
                          ByteOf(regs'[F_rd(w)], i) = MemGet(memory, la + i)
        ]_vars

\* C15 witness: SW of 0x12345678 at 64, SH of 0xFFFE over 66..67, then the
\* unaligned LW at 65 has read the bytes 56 FE FF 00.
C15_Witness ==
    /\ LastWas(LW(2, 0, 65))
    /\ MemGet(memory, 64) = 120 /\ MemGet(memory, 65) = 86
    /\ MemGet(memory, 66) = 254 /\ MemGet(memory, 67) = 255
    /\ regs[2] = W(\h00FF, \hFE56)

\* C16: an LW that follows an SW with the same base register and offset, at
\* an address a with a + 4 <= 65536, does not panic and leaves in its
\* destination register exactly the value the SW stored.
C16_SwLwIdentity ==
    [][(/\ RunStep
        /\ F_opcode(CurWord) = 3 /\ F_funct3(CurWord) = 2
        /\ F_rd(CurWord) # 0
        /\ last_inst # <<>>
        /\ F_opcode(last_inst[1].raw) = 35
        /\ F_funct3(last_inst[1].raw) = 2
        /\ F_rs1(last_inst[1].raw) = F_rs1(CurWord)
        /\ S_imm(last_inst[1].raw) = I_imm(CurWord)
        /\ InRange(Add32(regs[F_rs1(CurWord)], I_imm(CurWord)), 4))
         => /\ ctl' # "panicked"
            /\ regs'[F_rd(CurWord)] = regs[F_rs2(last_inst[1].raw)]]_vars

\* C16 witness: 0x8F8E7F8C stored by SW at 0xFFFC, the last word of memory,
\* and read back into x2 by LW.
C16_Witness ==
    /\ LastWas(LW(2, 4, 0))
    /\ regs[4] = 65532
    /\ MemGet(memory, 65535) = 143
    /\ regs[1] = W(\h8F8E, \h7F8C)
    /\ regs[2] = W(\h8F8E, \h7F8C)

Sub32(a, b) == Add32(Add32(a, -1 - b), 1)
F_funct7(w) == Bits(w, 25, 7)

\* The RV32I result of the register-register word w on operands a and b.
RTypeResult(w, a, b) ==
    LET f7 == F_funct7(w)
        f3 == F_funct3(w)
        shamt == b % 32
    IN  CASE f7 = 0 /\ f3 = 0 -> Add32(a, b)
          [] f7 = 32 /\ f3 = 0 -> Sub32(a, b)
          [] f7 = 0 /\ f3 = 1 -> Shl32(a, shamt)
          [] f7 = 0 /\ f3 = 2 -> IF a < b THEN 1 ELSE 0
          [] f7 = 0 /\ f3 = 3 -> IF LtU(a, b) THEN 1 ELSE 0
          [] f7 = 0 /\ f3 = 4 -> Xor32(a, b)
          [] f7 = 0 /\ f3 = 5 -> Shr32(a, shamt)
          [] f7 = 32 /\ f3 = 5 -> Sar32(a, shamt)
          [] f7 = 0 /\ f3 = 6 -> Or32(a, b)
          [] f7 = 0 /\ f3 = 7 -> And32(a, b)

IsRType(w) ==
    /\ F_opcode(w) = 51
    /\ \/ F_funct7(w) = 0
       \/ F_funct7(w) = 32 /\ F_funct3(w) \in {0, 5}

\* C18 (as claimed): a register-register instruction fetched by run is
\* executed with status 0, not as unimplemented, and leaves its RV32I
\* result in regs[rd].
C18_RTypeExecuted ==
    [][(RunStep /\ IsRType(CurWord))
         => /\ ctl' # "panicked"
            /\ exec_status' = <<0>>
            /\ F_rd(CurWord) # 0
                 => regs'[F_rd(CurWord)]
                      = RTypeResult(CurWord, regs[F_rs1(CurWord)],
                                    regs[F_rs2(CurWord)])]_vars

\* C19: an iteration of run that fetches the all-zero word does not fail
\* to decode it: the instruction it records is ADDI with rd = 0, rs1 = 0
\* and imm = 0.
C19_ZeroWordIsAddi ==
    [][(RunStep /\ CurWord = 0)
         => /\ ctl' # "panicked"
            /\ last_inst' # <<>>
            /\ last_inst'[1].raw = 0
            /\ last_inst'[1].inst = "ADDI"
            /\ last_inst'[1].inst_type.rd = 0
            /\ last_inst'[1].inst_type.rs1 = 0
            /\ last_inst'[1].inst_type.imm = 0]_vars

\* C19 witness: the zero word after the ADDI chain was decoded as ADDI.
C19_Witness ==
    /\ loaded = ProgAddiChain /\ steps = 7
    /\ LastWas(0) /\ last_inst[1].inst = "ADDI"

\* The words of the instruction set: the all-zero word, and the eleven
\* opcodes with a listed funct3 (and funct7, for register-register words).
IsListedWord(w) ==
    \/ w = 0
    \/ F_opcode(w) \in {55, 23, 111, 19, 15, 115}
    \/ F_opcode(w) = 103 /\ F_funct3(w) = 0
    \/ F_opcode(w) = 99 /\ F_funct3(w) \in {0, 1, 4, 5, 6, 7}
    \/ F_opcode(w) = 3 /\ F_funct3(w) \in {0, 1, 2, 4, 5}
    \/ F_opcode(w) = 35 /\ F_funct3(w) \in {0, 1, 2}
    \/ IsRType(w)

\* C20 (as claimed): an iteration of run that fetches a word outside the
\* instruction set fails at decode: it records no decoded instruction.
C20_UnlistedWordFails ==
    [][(RunStep /\ ~IsListedWord(CurWord))
         => (ctl' = "panicked" /\ last_inst' = last_inst)]_vars

\* C21 (as claimed): the immediate decoded from a word with opcode 1100011
\* is the 13-bit value {bit 31, bit 7, bits 30:25, bits 11:8, 0}
\* sign-extended from bit 12: even, in -4096 .. 4094, negative exactly
\* when bit 31 of the word is 1.
C21_BImmediate ==
    (last_inst # <<>> /\ F_opcode(last_inst[1].raw) = 99)
      => LET imm == last_inst[1].inst_type.imm
             w == last_inst[1].raw
         IN  /\ imm = B_imm(w)
             /\ imm % 2 = 0
             /\ imm \in -4096 .. 4094
             /\ (imm < 0) = (Bits(w, 31, 1) = 1)

\* C22 (as claimed): the immediate decoded from a word with opcode 1101111
\* is the 21-bit value {bit 31, bits 19:12, bit 20, bits 30:21, 0}
\* sign-extended from bit 20: even, negative exactly when bit 31 of the
\* word is 1.
C22_JImmediate ==
    (last_inst # <<>> /\ F_opcode(last_inst[1].raw) = 111)
      => LET imm == last_inst[1].inst_type.imm
             w == last_inst[1].raw
         IN  /\ imm = J_imm(w)
             /\ imm % 2 = 0
             /\ (imm < 0) = (Bits(w, 31, 1) = 1)

\* Programs without jumps, branches or stores.
StraightPrograms ==
    {ProgAddiTest, ProgAddiChain, ProgSltiTest, ProgSltiuTest} \cup ProgImm
      \cup ProgRType \cup ProgUpper

\* This step is a call of from_inst that did not fail.
LoadStep == ctl # "loaded" /\ ctl' = "loaded"

\* C23: from_inst(words) on a CPU whose pc is b leaves byte j of word k at
\* b + 4k + j, every other byte, every register and pc as they were; the
\* first fetch after it returns word 0, and the k-th iteration of the run
\* of a program without jumps, branches or stores has fetched word k.
C23_FromInstLayout ==
    /\ [][LoadStep =>
            LET span == pc .. pc + 4 * Len(loaded') - 1
            IN  /\ regs' = regs
                /\ pc' = pc
                /\ \A x \in (DOMAIN memory \cup DOMAIN memory' \cup span) :
                     MemGet(memory', x)
                       = IF x \in span
                         THEN ByteOf(loaded'[((x - pc) \div 4) + 1],
                                     (x - pc) % 4)
                         ELSE MemGet(memory, x)]_vars
    /\ [][(ctl = "loaded" /\ RunStep)
            => /\ CurWord = loaded[1]
               /\ ctl' # "panicked" => last_inst'[1].raw = loaded[1]]_vars
    /\ []((loaded \in StraightPrograms /\ steps \in 1 .. Len(loaded)
             /\ ctl # "panicked")
            => LastWas(loaded[steps]))

\* C23 witness: a word loaded at pc = 8 after a first run has returned, and
\* then fetched and executed from there.
C23_Witness ==
    /\ loaded = <<ADDI(1, 1, 1)>>
    /\ pc = 12
    /\ LastWas(ADDI(1, 1, 1))
    /\ MemGet(memory, 8) = 147

\* The words SLLI, SRLI (bits 31:25 = 0) and SRAI (bits 31:25 = 0100000).
IsShiftImm(w) ==
    /\ F_opcode(w) = 19
    /\ \/ F_funct3(w) = 1 /\ F_funct7(w) = 0
       \/ F_funct3(w) = 5 /\ F_funct7(w) \in {0, 32}

\* C24 (as claimed): SLLI, SRLI and SRAI shift regs[rs1] by bits 24:20 of
\* the word only: left, right filling with zeros, right replicating bit 31;
\* bit 30 of SRAI does not count and the instruction completes.
C24_ShiftByShamt ==
    [][(RunStep /\ IsShiftImm(CurWord) /\ F_rd(CurWord) # 0)
         => LET a == regs[F_rs1(CurWord)]
                shamt == Bits(CurWord, 20, 5)
            IN  /\ ctl' # "panicked"
                /\ regs'[F_rd(CurWord)]
                     = CASE F_funct3(CurWord) = 1 -> Shl32(a, shamt)
                         [] F_funct7(CurWord) = 0 -> Shr32(a, shamt)
                         [] OTHER -> Sar32(a, shamt)]_vars

\* C25 (as claimed): the words 0x00000073 and 0x00100073 decode without
\* failure, the first to ECALL and the second to EBREAK.
C25_EcallEbreakDecode ==
    [][(RunStep /\ IsEnvWord(CurWord))
         => /\ ctl' # "panicked"
            /\ last_inst' # <<>>
            /\ last_inst'[1].raw = CurWord
            /\ last_inst'[1].inst
                 = IF CurWord = ECALL THEN "ECALL" ELSE "EBREAK"]_vars

\* C26: an iteration of run that fetches a FENCE word (opcode 0001111,
\* funct3 = 0) at pc changes no register and no memory byte, leaves pc + 4
\* as the next fetch address, and run goes on: ADDI x1,x0,5; FENCE;
\* ADDI x2,x1,1 has x2 = 6 after its third iteration.
C26_FenceIsNoOp ==
    /\ [][(RunStep /\ F_opcode(CurWord) = 15 /\ F_funct3(CurWord) = 0)
            => /\ ctl' = "running"
               /\ regs' = regs
               /\ memory' = memory
               /\ pc' = pc + 4]_vars
    /\ []((loaded \in ProgFence /\ steps = 3)
            => (ctl # "panicked" /\ LastWas(ADDI(2, 1, 1)) /\ regs[2] = 6))

\* C26 witness: the FENCE with every other field set has just been executed
\* after ADDI x1,x0,5.
C26_Witness ==
    /\ LastWas(EncI(15, 0, 1, 1, -1))
    /\ ctl = "running" /\ pc = 8 /\ regs[1] = 5

\* C27: last_inst is None until run has made an iteration; an iteration
\* that completes leaves in last_inst the decoded instruction of the word
\* it fetched, whose raw field is that word; when run has returned 0,
\* last_inst is an ADDI with rd = 0, rs1 = 0 and imm = 0.
C27_LastInstRecorded ==
    /\ [](steps = 0 => last_inst = <<>>)
    /\ [][(RunStep /\ ctl' # "panicked")
            => /\ last_inst' = <<InstructionFrom(CurWord).val>>
               /\ last_inst'[1].raw = CurWord]_vars
    /\ []((ctl = "returned" /\ ret = <<0>>)
            => /\ last_inst # <<>>
               /\ last_inst[1].inst = "ADDI"
               /\ last_inst[1].inst_type.rd = 0
               /\ last_inst[1].inst_type.rs1 = 0
               /\ last_inst[1].inst_type.imm = 0)

\* C27 witness: the second SLTI of tests::slti is recorded after the second
\* iteration, the run going on.
C27_Witness ==
    /\ loaded = ProgSltiTest /\ steps = 2 /\ ctl = "running"
    /\ LastWas(SLTI(2, 0, -1)) /\ last_inst[1].inst = "SLTI"

\* C28 (as claimed): under exit_on_nop an iteration of run ends the run
\* exactly when the word it fetched is 0x00000013 or the all-zero word, the
\* only words for which is_nop holds.
C28_NopWordsOnly ==
    [][(RunStep /\ exit_on_nop /\ ctl' # "panicked")
         => ((ctl' = "returned") = IsNopWord(CurWord))]_vars

IsBranch(w) == F_opcode(w) = 99 /\ F_funct3(w) \in {0, 1, 4, 5, 6, 7}

\* C29: a conditional branch fetched at pc is taken (the next fetch address
\* is not pc + 4) exactly when its condition holds: bit equality for
\* BEQ/BNE, signed order for BLT/BGE, unsigned order for BLTU/BGEU; with
\* x1 = 0xFFFFFFFF and x2 = 1, BLT and BGEU are taken, BLTU and BGE are not.
C29_BranchCompare ==
    /\ [][(RunStep /\ IsBranch(CurWord) /\ B_imm(CurWord) % 4096 # 0)
            => /\ ctl' # "panicked"
               /\ (pc' # pc + 4) = BranchCond(CurWord, regs)]_vars
    /\ [][(RunStep /\ IsBranch(CurWord) /\ F_rs1(CurWord) = 1
             /\ F_rs2(CurWord) = 2 /\ regs[1] = -1 /\ regs[2] = 1
             /\ B_imm(CurWord) = 8)
            => (pc' # pc + 4) = (F_funct3(CurWord) \in {1, 4, 7})]_vars

\* C29 witness: BLT x1,x2 with x1 = 0xFFFFFFFF, x2 = 1, fetched at 8, was
\* taken.
C29_Witness ==
    /\ LastWas(EncB(4, 1, 2, 8))
    /\ regs[1] = -1 /\ regs[2] = 1
    /\ steps = 3 /\ pc # 12

\* C30: an iteration of run that completes an instruction fetched at pc,
\* other than JAL, JALR and a conditional branch whose condition holds,
\* leaves pc + 4 as the next fetch address.
C30_DefaultAdvance ==
    [][(/\ RunStep
        /\ ctl' # "panicked"
        /\ F_opcode(CurWord) \notin {111, 103}
        /\ ~(IsBranch(CurWord) /\ BranchCond(CurWord, regs)))
         => pc' = pc + 4]_vars

\* C30 witness: BNE x1,x2 with x1 = x2 = 1, fetched at 8, was not taken.
C30_Witness ==
    /\ LastWas(EncB(1, 1, 2, 8))
    /\ regs[1] = 1 /\ regs[2] = 1
    /\ steps = 3 /\ pc = 12

C32_ShiftImmDecode ==
    [][(RunStep /\ F_opcode(CurWord) = 19 /\ F_funct3(CurWord) \in {1, 5})
         => IF IsShiftImm(CurWord)
            THEN ctl' # "panicked"
                   => last_inst'[1].inst
                        = CASE F_funct3(CurWord) = 1 -> "SLLI"
                            [] Bits(CurWord, 30, 1) = 1 -> "SRAI"
                            [] OTHER -> "SRLI"
            ELSE ctl' = "panicked" /\ last_inst' = last_inst]_vars

\* The RV32I name of the register-register word w.
RTypeName(w) ==
    IF F_funct7(w) = 0
    THEN <<"ADD", "SLL", "SLT", "SLTU", "XOR", "SRL", "OR", "AND">>
           [F_funct3(w) + 1]
    ELSE IF F_funct3(w) = 0 THEN "SUB" ELSE "SRA"

\* C33: a recorded instruction whose word has opcode 0110011 is named by
\* funct7 and funct3 (ADD, SLL, SLT, SLTU, XOR, SRL, OR, AND for funct7 = 0;
\* SUB, SRA for funct7 = 0100000) and has rd, rs1, rs2 from bits 11:7,
\* 19:15, 24:20; every such word with a listed funct7/funct3 decodes.
C33_RTypeDecode ==
    /\ []((last_inst # <<>> /\ F_opcode(last_inst[1].raw) = 51)
            => LET w == last_inst[1].raw
                   t == last_inst[1].inst_type
               IN  /\ IsRType(w)
                   /\ last_inst[1].inst = RTypeName(w)
                   /\ t.type = "R"
                   /\ t.rd = F_rd(w) /\ t.rs1 = F_rs1(w) /\ t.rs2 = F_rs2(w)
                   /\ t.funct3 = F_funct3(w) /\ t.funct7 = F_funct7(w))
    /\ [][(RunStep /\ IsRType(CurWord))
            => (ctl' # "panicked" /\ last_inst'[1].raw = CurWord)]_vars

\* C33 witness: the word with funct7 = 0100000, funct3 = 101, rd = 31,
\* rs1 = 17, rs2 = 30 is recorded as SRA x31,x17,x30.
C33_Witness ==
    /\ LastWas(EncR(32, 5, 31, 17, 30))
    /\ last_inst[1].inst = "SRA"
    /\ last_inst[1].inst_type.rd = 31
    /\ last_inst[1].inst_type.rs1 = 17
    /\ last_inst[1].inst_type.rs2 = 30

\* This step is a call of from_inst, failed or not.
FromInstCall == steps' = steps /\ ctl' \in {"loaded", "panicked"}

\* C34 (as claimed): a call of from_inst whose words do not fit between pc
\* and the end of memory fails, and leaves memory as it was.
C34_LoaderError ==
    [][(FromInstCall /\ pc + 4 * Len(loaded') > MemSize)
         => (ctl' = "panicked" /\ memory' = memory)]_vars

\* C35 (as claimed): a load or store whose bytes a .. a + width - 1 are not
\* all inside memory faults and leaves every register and every memory byte
\* as it was.
C35_FaultWithoutEffect ==
    [][(/\ RunStep
        /\ \/ /\ IsStore(CurWord)
              /\ ~InRange(Add32(regs[F_rs1(CurWord)], S_imm(CurWord)),
                          AccessWidth(F_funct3(CurWord)))
           \/ /\ IsLoad(CurWord)
              /\ ~InRange(Add32(regs[F_rs1(CurWord)], I_imm(CurWord)),
                          AccessWidth(F_funct3(CurWord))))
         => (ctl' = "panicked" /\ regs' = regs /\ memory' = memory)]_vars

\* The opcodes of the instructions that have a destination register.
HasRd(w) == F_opcode(w) \in {55, 23, 111, 103, 3, 19, 51}

\* C36: an iteration of run changes no register other than the rd of the
\* word it fetched, and none when the word is a branch, a store or a FENCE;
\* it changes memory only when the word is SB/SH/SW and then only at the
\* 1, 2 or 4 addressed bytes; and it never changes exit_on_nop.
C36_FrameOfAnInstruction ==
    [][RunStep =>
         LET w == CurWord
             a == Add32(regs[F_rs1(w)], S_imm(w))
             n == AccessWidth(F_funct3(w))
         IN  /\ exit_on_nop' = exit_on_nop
             /\ \A r \in 0 .. 31 :
                  regs'[r] # regs[r] => (HasRd(w) /\ r = F_rd(w))
             /\ memory' # memory => IsStore(w)
             /\ \A x \in DOMAIN memory \cup DOMAIN memory' :
                  MemGet(memory', x) # MemGet(memory, x)
                    => x \in a .. a + n - 1]_vars

\* C36 witness: SH x3,66(x0) has changed bytes 66 and 67 only, x3 and the
\* other registers being as before.
C36_Witness ==
    /\ LastWas(SH(3, 0, 66))
    /\ regs[3] = -2 /\ regs[1] = W(\h1234, \h5678)
    /\ MemGet(memory, 65) = 86
    /\ MemGet(memory, 66) = 254 /\ MemGet(memory, 67) = 255
    /\ MemGet(memory, 68) = 0

=============================================================================
